---- MODULE Spec2Model ----
(***************************************************************************)
(* Model of the IOT2050 telegraf config handler (src/src/main.rs and       *)
(* src/src/ssh_utils.rs).  One run of the process `main` is one behaviour: *)
(* argument validation, then exactly one of the flows --send,              *)
(* --backup-influx, --backup-grafana or interactive generation.            *)
(* Text is modelled as sequences of one-character strings, so that         *)
(* splitting, trimming and integer parsing are computed as the code        *)
(* computes them.                                                          *)
(***************************************************************************)
EXTENDS Integers, Sequences, FiniteSets, TLC

\* ------------------------------------------------------------------ bounds
\* longest list of period-separated segments an --ip input is built from
MaxIpSegs == 5
\* longest list of colon-separated segments an --iot-host input is built from
MaxHostSegs == 3
\* most XML files the folder scan finds
MaxFiles == 2
\* most entries the remote backup directory lists
MaxEntries == 3
\* most elements (below the root) of a document of the node-list specification
MaxDocLen == 3
\* most elements (below the root) of a document of the group-name specification
MaxGroupDocLen == 4

\* ------------------------------------------------------- program constants
\* u8::MAX and u16::MAX, the ranges of parse::<u8>() and parse::<u16>()
U8Max == 255
U16Max == 65535
\* Duration::from_secs(5), the settle delay after the restart command
SettleSecs == 5

\* ------------------------------------------------------------ text helpers
Digits == {"0", "1", "2", "3", "4", "5", "6", "7", "8", "9"}

DigitVal(c) ==
    CASE c = "0" -> 0 [] c = "1" -> 1 [] c = "2" -> 2 [] c = "3" -> 3
      [] c = "4" -> 4 [] c = "5" -> 5 [] c = "6" -> 6 [] c = "7" -> 7
      [] c = "8" -> 8 [] c = "9" -> 9

\* char::is_whitespace (the Unicode White_Space property) on the characters
\* a string of this module can hold, U+0000..U+00FF: tab, line feed,
\* vertical tab, form feed, carriage return, space, next line (U+0085) and
\* no-break space (U+00A0)
IsWhitespace(c) == c \in {"\t", "\n", "", "\f", "\r", " ", "", " "}

\* str::trim_start / str::trim
RECURSIVE TrimStart(_)
TrimStart(s) ==
    IF Len(s) > 0 /\ IsWhitespace(s[1]) THEN TrimStart(Tail(s)) ELSE s

RECURSIVE TrimEnd(_)
TrimEnd(s) ==
    IF Len(s) > 0 /\ IsWhitespace(s[Len(s)])
    THEN TrimEnd(SubSeq(s, 1, Len(s) - 1))
    ELSE s

Trim(s) == TrimEnd(TrimStart(s))

\* the upper-case letters of U+0000..U+00FF and, place by place, their
\* lower-case letters
UpperLetters ==
    << "A", "B", "C", "D", "E", "F", "G", "H", "I", "J", "K", "L", "M",
       "N", "O", "P", "Q", "R", "S", "T", "U", "V", "W", "X", "Y", "Z",
       "À", "Á", "Â", "Ã", "Ä", "Å", "Æ", "Ç", "È", "É", "Ê", "Ë", "Ì",
       "Í", "Î", "Ï", "Ð", "Ñ", "Ò", "Ó", "Ô", "Õ", "Ö", "Ø", "Ù", "Ú",
       "Û", "Ü", "Ý", "Þ" >>
LowerLetters ==
    << "a", "b", "c", "d", "e", "f", "g", "h", "i", "j", "k", "l", "m",
       "n", "o", "p", "q", "r", "s", "t", "u", "v", "w", "x", "y", "z",
       "à", "á", "â", "ã", "ä", "å", "æ", "ç", "è", "é", "ê", "ë", "ì",
       "í", "î", "ï", "ð", "ñ", "ò", "ó", "ô", "õ", "ö", "ø", "ù", "ú",
       "û", "ü", "ý", "þ" >>

\* char::to_lowercase on U+0000..U+00FF: every upper-case letter, ASCII or
\* not, goes to its lower-case letter, any other character stays
LowerChar(c) ==
    IF \E i \in 1..Len(UpperLetters) : UpperLetters[i] = c
    THEN LowerLetters[CHOOSE i \in 1..Len(UpperLetters) : UpperLetters[i] = c]
    ELSE c

\* str::to_lowercase
ToLower(s) == [i \in 1..Len(s) |-> LowerChar(s[i])]

\* char::to_ascii_lowercase: the letters A..Z alone are lowered
AsciiLowerChar(c) ==
    IF \E i \in 1..26 : UpperLetters[i] = c
    THEN LowerLetters[CHOOSE i \in 1..26 : UpperLetters[i] = c]
    ELSE c

\* str::eq_ignore_ascii_case
EqIgnoreAsciiCase(a, b) ==
    /\ Len(a) = Len(b)
    /\ \A i \in 1..Len(a) : AsciiLowerChar(a[i]) = AsciiLowerChar(b[i])

\* str::split(sep): the segments between separators; a string without the
\* separator (the empty string included) gives one segment.
RECURSIVE SplitFrom(_, _, _, _)
SplitFrom(s, sep, i, cur) ==
    IF i > Len(s) THEN <<cur>>
    ELSE IF s[i] = sep THEN <<cur>> \o SplitFrom(s, sep, i + 1, <<>>)
    ELSE SplitFrom(s, sep, i + 1, Append(cur, s[i]))

Split(s, sep) == SplitFrom(s, sep, 1, <<>>)

\* str::parse for an unsigned integer type with maximum `max`
\* (core::num from_str_radix, radix 10): the empty string, a lone sign and
\* any non-digit are errors, one leading "+" is accepted, "-" is not, and a
\* value above max is an overflow error.  -1 stands for Err.
RECURSIVE ParseDigits(_, _, _, _)
ParseDigits(s, i, acc, max) ==
    IF i > Len(s) THEN acc
    ELSE IF s[i] \notin Digits THEN -1
    ELSE IF acc * 10 + DigitVal(s[i]) > max THEN -1
    ELSE ParseDigits(s, i + 1, acc * 10 + DigitVal(s[i]), max)

ParseUnsigned(s, max) ==
    IF Len(s) = 0 THEN -1
    ELSE IF s = <<"+">> \/ s = <<"-">> THEN -1
    ELSE IF s[1] = "+" THEN ParseDigits(Tail(s), 1, 0, max)
    ELSE ParseDigits(s, 1, 0, max)

ParseU8(s) == ParseUnsigned(s, U8Max)
ParseU16(s) == ParseUnsigned(s, U16Max)
\* a numeral without its leading zeros ("0" for zero)
RECURSIVE StripZeros(_)
StripZeros(d) ==
    IF Len(d) > 1 /\ d[1] = "0" THEN StripZeros(Tail(d)) ELSE d

\* usize::MAX of a 64-bit build, 18446744073709551615, as its digits
UsizeMaxDigits ==
    << "1", "8", "4", "4", "6", "7", "4", "4", "0", "7",
       "3", "7", "0", "9", "5", "5", "1", "6", "1", "5" >>

\* a numeral without leading zeros is above usize::MAX
AboveUsizeMax(d) ==
    \/ Len(d) > Len(UsizeMaxDigits)
    \/ /\ Len(d) = Len(UsizeMaxDigits)
       /\ \E i \in 1..Len(d) :
             /\ DigitVal(d[i]) > DigitVal(UsizeMaxDigits[i])
             /\ \A j \in 1..(i - 1) : d[j] = UsizeMaxDigits[j]

\* parse::<usize>() (64-bit).  The values of usize go beyond the integers of
\* the model checker, so the result is kept as text: <<>> stands for Err and
\* <<d>> for Ok(n), d being the decimal digits of n without leading zeros.
\* The empty string, a lone sign and any non-digit are errors, one leading
\* "+" is accepted, "-" is not, and a value above usize::MAX is an error.
ParseUsize(s) ==
    LET d == IF Len(s) > 0 /\ s[1] = "+" THEN Tail(s) ELSE s
    IN  IF Len(d) = 0 THEN <<>>
        ELSE IF \E i \in 1..Len(d) : d[i] \notin Digits THEN <<>>
        ELSE IF AboveUsizeMax(StripZeros(d)) THEN <<>>
        ELSE <<StripZeros(d)>>

\* the usize of the given digits when it is at most n (n below 10^9),
\* otherwise n + 1: all that `num > 0 && num <= n` and `num - 1` need
UsizeUpTo(d, n) ==
    IF Len(d) > 9 THEN n + 1
    ELSE LET v == ParseDigits(d, 1, 0, 999999999)
         IN  IF v > n THEN n + 1 ELSE v

\* number of elements of a sequence satisfying a test: Iterator::filter.count
RECURSIVE CountOk(_)
CountOk(parts) ==
    IF Len(parts) = 0 THEN 0
    ELSE (IF ParseU8(Head(parts)) >= 0 THEN 1 ELSE 0) + CountOk(Tail(parts))

\* main.rs: ip.split('.').filter(|part| part.parse::<u8>().is_ok()).count() == 4
IpValid(s) == CountOk(Split(s, ".")) = 4

\* IotHostValid without the `port > 0` test: port 0 passes
IotHostValidAnyPort(s) ==
    LET iot_host_parts == Split(s, ":")
    IN  /\ Len(iot_host_parts) = 2
        /\ ParseU16(iot_host_parts[2]) >= 0

\* main.rs: split(':'), len() == 2 and parts[1].parse::<u16>() is Ok(port), port > 0
IotHostValid(s) ==
    LET iot_host_parts == Split(s, ":")
    IN  /\ Len(iot_host_parts) = 2
        /\ ParseU16(iot_host_parts[2]) > 0

\* String::join of segments with a separator character
RECURSIVE Join(_, _)
Join(segs, sep) ==
    IF Len(segs) = 0 THEN <<>>
    ELSE IF Len(segs) = 1 THEN segs[1]
    ELSE segs[1] \o <<sep>> \o Join(Tail(segs), sep)

\* ------------------------------------------------------------ sample texts
Chars_active == <<"a", "c", "t", "i", "v", "e">>
Chars_failed == <<"f", "a", "i", "l", "e", "d">>
Chars_host == <<"1", "0", ".", "0", ".", "0", ".", "5">>

\* raw stdout of the status-check command, as the remote end may produce it
StatusOutputs ==
    { Chars_active \o <<"\n">>,
      Chars_active,
      <<" ">> \o Chars_active \o <<"\r", "\n">>,
      Chars_failed \o <<"\n">>,
      Chars_active \o <<"\n">> \o Chars_failed \o <<"\n">>,
      <<"A">> \o Tail(Chars_active) \o <<"\n">>,
      Chars_active \o <<"\f">>,
      <<>> }

\* lines read at a (y/N) prompt; the empty text is the end of the input
Answers ==
    { <<"y", "\n">>, <<"Y", "\n">>, <<" ", "y", " ", "\r", "\n">>,
      <<"n", "\n">>, <<"\n">>, <<"y", "e", "s", "\n">>,
      <<"y", "\f", "\n">>, <<"Ý", "\n">>, <<>> }

\* lines the user may type at the listener-index prompt
ListenerLines ==
    { <<"\n">>, <<"1", "\n">>, <<"2", "\n">>, <<"1", ",", "2", "\n">>,
      <<" ", "2", " ", ",", "x", ",", "1", "\n">>, <<"0", ",", "3", "\n">>,
      <<"1", ",", "1", "\n">>, <<"1", "2", "\n">>,
      <<"4", "2", "9", "4", "9", "6", "7", "2", "9", "7", "\n">>,
      <<"+", "0", "1", ",">> \o UsizeMaxDigits \o <<"0", "\n">> }

\* --ip values of the whole-program specification
IpSamples ==
    { Chars_host,
      <<"1", "0", ".", "0", ".", "0">>,
      Chars_host \o <<".", "6">>,
      Chars_host \o <<".">>,
      <<"2", "5", "6", ".", "0", ".", "0", ".", "1">> }

\* --iot-host values of the whole-program specification
HostSamples ==
    { Chars_host \o <<":", "2", "2">>,
      Chars_host,
      Chars_host \o <<":", "0">>,
      Chars_host \o <<":", "2", "2", ":", "1">>,
      <<":", "6", "5", "5", "3", "5">> }

\* segments the inputs of the validation specifications are joined from
IpSegs ==
    { <<>>, <<"0">>, <<"5">>, <<"6">>, <<"1", "0">>, <<"2", "5", "5">>,
      <<"2", "5", "6">>, <<"+", "5">>, <<"x">> }

HostSegs ==
    { <<>>, Chars_host, <<"2", "2">>, <<"0">>, <<"+", "2", "2">>,
      <<"6", "5", "5", "3", "5">>, <<"6", "5", "5", "3", "6">>, <<"-", "1">>,
      <<"2", "2", "x">> }

SeqsUpTo(S, n) == UNION { [1..k -> S] : k \in 1..n }

\* --------------------------------------------------- format.rs: parse_xml
\* An address-space document is the sequence of its elements below the root
\* in document order; an element is [tag, id, text, depth]: its tag name, its
\* NodeId attribute and its first text child as options (<<>> for None,
\* <<t>> for Some(t)), and its nesting depth.
Elem(tag, id, text, depth) == [tag |-> tag, id |-> id, text |-> text, depth |-> depth]

\* Node::descendants(): the element itself and all elements nested in it, in
\* document order
Descendants(doc, i) ==
    {j \in i..Len(doc) : \A k \in (i + 1)..j : doc[k].depth > doc[i].depth}

\* .descendants().find(|n| n.has_tag_name(tag)).and_then(|n| n.text())
FindText(doc, i, tag) ==
    LET found == {j \in Descendants(doc, i) : doc[j].tag = tag}
    IN  IF found = {} THEN <<>>
        ELSE doc[CHOOSE j \in found : \A k \in found : j <= k].text

\* str::starts_with
StartsWith(s, prefix) ==
    /\ Len(s) >= Len(prefix)
    /\ SubSeq(s, 1, Len(prefix)) = prefix

\* "ns=2;i=" and the sentinel "ns=2;i=1"
Ns2Prefix == <<"n", "s", "=", "2", ";", "i", "=">>
SentinelId == Ns2Prefix \o <<"1">>

\* var_mapping.replace('"', "")
StripQuotes(s) == SelectSeq(s, LAMBDA c : c # "\"")

\* the name of a variable with BrowseName taken first
NodeNameBrowseFirst(doc, i) ==
    LET browse == FindText(doc, i, "BrowseName")
        mapping == FindText(doc, i, "VariableMapping")
    IN  IF browse # <<>> THEN browse[1]
        ELSE IF mapping # <<>> THEN StripQuotes(mapping[1])
        ELSE <<>>

\* the name of a variable: the BrowseName text (or ""), overridden by the
\* VariableMapping text with the quotes removed
NodeName(doc, i) ==
    LET browse == FindText(doc, i, "BrowseName")
        mapping == FindText(doc, i, "VariableMapping")
    IN  IF mapping # <<>> THEN StripQuotes(mapping[1])
        ELSE IF browse # <<>> THEN browse[1]
        ELSE <<>>

\* node_id.split('=').nth(2).unwrap()
Identifier(node_id) == Split(node_id, "=")[3]

\* the loop over the UAVariable elements from element i on: one entry
\* {name="..", identifier=".."} per element whose NodeId starts with "ns=2;i="
RECURSIVE ParseNodes(_, _)
ParseNodes(doc, i) ==
    IF i > Len(doc) THEN <<>>
    ELSE IF /\ doc[i].tag = "UAVariable"
            /\ doc[i].id # <<>>
            /\ StartsWith(doc[i].id[1], Ns2Prefix)
         THEN <<[name |-> NodeName(doc, i), identifier |-> Identifier(doc[i].id[1])]>>
              \o ParseNodes(doc, i + 1)
         ELSE ParseNodes(doc, i + 1)

\* ScanDisplayName keeping the first match instead of the last
RECURSIVE ScanDisplayNameFirstWins(_, _, _)
ScanDisplayNameFirstWins(doc, i, display_name) ==
    IF i > Len(doc) THEN display_name
    ELSE IF /\ doc[i].tag = "UAObject"
            /\ doc[i].id = <<SentinelId>>
            /\ FindText(doc, i, "DisplayName") # <<>>
            /\ display_name = <<>>
         THEN ScanDisplayNameFirstWins(doc, i + 1, FindText(doc, i, "DisplayName")[1])
         ELSE ScanDisplayNameFirstWins(doc, i + 1, display_name)

\* the loop over the UAObject elements from element i on: display_name is
\* overwritten by the DisplayName text of every object with NodeId "ns=2;i=1"
\* that has one
RECURSIVE ScanDisplayName(_, _, _)
ScanDisplayName(doc, i, display_name) ==
    IF i > Len(doc) THEN display_name
    ELSE IF /\ doc[i].tag = "UAObject"
            /\ doc[i].id = <<SentinelId>>
            /\ FindText(doc, i, "DisplayName") # <<>>
         THEN ScanDisplayName(doc, i + 1, FindText(doc, i, "DisplayName")[1])
         ELSE ScanDisplayName(doc, i + 1, display_name)

Chars_unknown == <<"u", "n", "k", "n", "o", "w", "n">>

\* Path::file_stem(): the last component of the path up to its last period
\* (a name without a period, or with its only period in front, is kept
\* whole); "unknown" when the path has no file name
FileStem(path) ==
    LET comps == Split(path, "/")
        name == comps[Len(comps)]
        dots == {i \in 1..Len(name) : name[i] = "."}
        last == CHOOSE i \in dots : \A k \in dots : k <= i
    IN  IF name = <<>> \/ name = <<".", ".">> THEN Chars_unknown
        ELSE IF dots = {} \/ last = 1 THEN name
        ELSE SubSeq(name, 1, last - 1)

\* group_name: display_name unless empty, otherwise the file stem
GroupName(doc, xml_file) ==
    LET display_name == ScanDisplayName(doc, 1, <<>>)
    IN  IF display_name # <<>> THEN display_name ELSE FileStem(xml_file)

\* the interval typed in, "1000ms" for an empty line
Interval(line) ==
    IF Trim(line) = <<>> THEN <<"1", "0", "0", "0", "m", "s">> ELSE Trim(line)

\* parse_xml: the block of one file.  The record stands for the text made by
\* format_listener_config / format_standard_config from the same values.
ParseXml(doc, xml_file, ns_line, interval_line, is_listener) ==
    [ kind |-> IF is_listener THEN "opcua_listener" ELSE "opcua",
      group_name |-> GroupName(doc, xml_file),
      namespace |-> Trim(ns_line),
      interval |-> Interval(interval_line),
      nodes |-> ParseNodes(doc, 1) ]

\* ------------------------------------------------------- sample documents
Chars_ns2i5 == Ns2Prefix \o <<"5">>

\* paths of XML files the folder scan may find
XmlPathSamples ==
    { <<"d", "/", "a", ".", "x", "m", "l">>,
      <<"d", "/", "b", ".", "c", ".", "x", "m", "l">>,
      <<"e", ".", "x", "m", "l">> }

\* documents of the whole-program specification
DocSamples ==
    { << Elem("UAObject", <<SentinelId>>, <<>>, 1),
         Elem("DisplayName", <<>>, <<<<"G">>>>, 2),
         Elem("UAVariable", <<Chars_ns2i5>>, <<>>, 1),
         Elem("BrowseName", <<>>, <<<<"b">>>>, 2) >>,
      << Elem("UAVariable", <<Ns2Prefix \o <<"1", "2">>>>, <<>>, 1),
         Elem("VariableMapping", <<>>, <<<<"\"", "m", "\"">>>>, 2) >> }

\* lines typed at the namespace and interval prompts of parse_xml
NamespaceLines == { <<"2", "\n">> }
IntervalLines == { <<"\n">>, <<"5", "0", "0", "m", "s", "\n">> }

\* element kinds (tag, NodeId, text) of the documents of the node-list
\* specification and of the group-name specification
NodeKinds ==
    ( {"UAVariable"}
        \X { <<>>, <<Chars_ns2i5>>, <<Ns2Prefix \o <<"1", "2">>>>,
             <<<<"n", "s", "=", "1", ";", "i", "=", "5">>>>,
             <<Chars_ns2i5 \o <<"=", "7">>>> }
        \X { <<>> } )
    \cup ( {"BrowseName"} \X { <<>> } \X { <<>>, <<<<"b">>>> } )
    \cup ( {"VariableMapping"} \X { <<>> }
             \X { <<>>, <<<<"\"", "m", "\"">>>>, <<<<"b">>>> } )

GroupKinds ==
    ( {"UAObject"} \X { <<SentinelId>>, <<SentinelId \o <<"0">>>> } \X { <<>> } )
    \cup ( {"UAVariable"} \X { <<SentinelId>> } \X { <<>> } )
    \cup ( {"DisplayName"} \X { <<>> } \X { <<>>, <<<<"G">>>>, <<<<"H">>>> } )

\* nesting depths of n elements in document order: the first is a child of
\* the root, each next one at most one level below the one before it
RECURSIVE Shapes(_)
Shapes(n) ==
    IF n = 0 THEN { <<>> }
    ELSE IF n = 1 THEN { <<1>> }
    ELSE UNION { { Append(sh, d) : d \in 1..(sh[n - 1] + 1) } : sh \in Shapes(n - 1) }

\* the document of the elements of kinds ks nested as the depths sh say
DocOf(ks, sh) == [i \in 1..Len(ks) |-> Elem(ks[i][1], ks[i][2], ks[i][3], sh[i])]

\* ------------------------------------------------------------------- state
VARIABLES
    pc,              \* position of the process in main / ssh_utils
    ip,              \* --ip
    iot_host,        \* --iot-host
    send,            \* --send
    backup_influx,   \* --backup-influx
    backup_grafana,  \* --backup-grafana
    conf_exists,     \* <folder>/telegraf.conf exists
    conf_written,    \* what this run wrote to telegraf.conf: "no", "partial", "full"
    caller,          \* the call site in main of the running ssh_utils function
    log,             \* remote and transfer steps taken, in order, with outcome
    slept,           \* seconds spent in thread::sleep
    status,          \* raw output of the status-check command
    result,          \* return value of the ssh_utils function: "none", "Ok", "Err"
    stderr,          \* messages written to the error stream, in order
    exit_code,       \* process exit status, -1 while running
    xml_files,       \* number of XML files the scan found (files 1..xml_files)
    listener_indices,\* 0-based indices selected as listeners, in input order
    config_strings,  \* the block generated per file, in loop order
    scanned,         \* fs::read_dir(folder) was called
    xml_names,       \* paths of the XML files found, in scan order
    xml_docs,        \* the document each of them holds
    listener_line,   \* the line typed at the listener prompt
    conf_content,    \* blocks in the telegraf.conf this run wrote
    file_list,       \* entries listed in the remote backup directory
    downloaded,      \* local files made by copy_directory_over_ssh, in order
    grafana_file     \* local grafana_backup.ini: "no", "partial", "full"

args == <<ip, iot_host, send, backup_influx, backup_grafana>>
files == <<scanned, xml_names, xml_docs>>
gen == <<xml_files, listener_indices, config_strings, files, listener_line,
         conf_content>>
backup == <<file_list, downloaded, grafana_file>>
remote == <<log, slept, status, result>>
vars == <<pc, args, conf_exists, conf_written, caller, remote, stderr,
          exit_code, gen, backup>>

InitRest ==
    /\ conf_written = "no"
    /\ caller = "none"
    /\ log = <<>>
    /\ slept = 0
    /\ status = <<>>
    /\ result = "none"
    /\ stderr = <<>>
    /\ exit_code = -1
    /\ xml_files = 0
    /\ listener_indices = <<>>
    /\ config_strings = <<>>
    /\ scanned = FALSE
    /\ xml_names = <<>>
    /\ xml_docs = <<>>
    /\ listener_line = <<>>
    /\ conf_content = <<>>
    /\ file_list = <<>>
    /\ downloaded = <<>>
    /\ grafana_file = "no"

\* the process after clap parsed the arguments and print_config ran
Init ==
    /\ pc = "validate_ip"
    /\ ip \in IpSamples
    /\ iot_host \in HostSamples
    /\ send \in BOOLEAN
    /\ backup_influx \in BOOLEAN
    /\ backup_grafana \in BOOLEAN
    /\ conf_exists \in BOOLEAN
    /\ InitRest

\* ------------------------------------------------------------ process exit
\* wrap_up(exit_code): on Windows waits for a key press (no state), then
\* std::process::exit(exit_code); nothing of main runs after it.
wrap_up(code) ==
    /\ exit_code' = code
    /\ pc' = "exited"

\* a failed unwrap()/expect(): the panic message goes to the error stream and
\* the process ends with Rust's panic exit status 101
Panic ==
    /\ stderr' = Append(stderr, "panic")
    /\ exit_code' = 101
    /\ pc' = "exited"

\* ------------------------------------------------------ argument validation
ValidateIp ==
    /\ pc = "validate_ip"
    /\ IF ~IpValid(ip)
       THEN /\ stderr' = Append(stderr, "invalid_ip")
            /\ wrap_up(1)
       ELSE /\ pc' = "validate_host"
            /\ UNCHANGED <<stderr, exit_code>>
    /\ UNCHANGED <<args, conf_exists, conf_written, caller, remote, gen, backup>>

\* ValidateHost without the exit: the error is printed and main goes on
ValidateHostFallsThrough ==
    /\ pc = "validate_host"
    /\ stderr' = IF ~IotHostValid(iot_host) THEN Append(stderr, "invalid_iot_host")
                 ELSE stderr
    /\ pc' = "flags"
    /\ UNCHANGED <<args, conf_exists, conf_written, caller, remote, exit_code,
                   gen, backup>>

ValidateHost ==
    /\ pc = "validate_host"
    /\ IF ~IotHostValid(iot_host)
       THEN /\ stderr' = Append(stderr, "invalid_iot_host")
            /\ wrap_up(1)
       ELSE /\ pc' = "flags"
            /\ UNCHANGED <<stderr, exit_code>>
    /\ UNCHANGED <<args, conf_exists, conf_written, caller, remote, gen, backup>>

\* ------------------------------------------------------- ssh_utils: helpers
\* outcomes of TcpStream::connect, Session::new, handshake, userauth_password
ConnectOutcomes == {"connect_err", "session_err", "handshake_err", "auth_err", "ok"}
\* outcomes of channel_session, exec, read_to_string, wait_close
ExecOutcomes == {"chan_err", "exec_err", "read_err", "close_err", "ok"}

\* One fallible step of an ssh_utils function: the step is logged with its
\* outcome; every call in it is followed by `?`, so any error returns Err
\* through the frames of ssh_utils to the call site in main.
Step(at, name, outcome, next) ==
    /\ pc = at
    /\ log' = Append(log, [op |-> name, res |-> outcome])
    /\ IF outcome = "ok"
       THEN pc' = next /\ result' = result
       ELSE pc' = "returned" /\ result' = "Err"

\* the function returns Ok(()) to the call site in main
ReturnOk ==
    /\ pc' = "returned"
    /\ result' = "Ok"

\* ------------------------------------------- ssh_utils: send_file_over_ssh
SendFileConnect ==
    /\ \E o \in ConnectOutcomes : Step("sf_connect", "sf_connect", o, "sf_upload")
    /\ UNCHANGED <<args, conf_exists, conf_written, caller, slept, status,
                   stderr, exit_code, gen, backup>>

\* scp_send (after local_path.metadata()), File::open, read_to_end, write_all;
\* on success send_and_restart_telegraf goes on to restart_telegraf_over_ssh
SendFileUpload ==
    /\ \E o \in {"metadata_err", "scp_err", "open_err", "read_err", "write_err", "ok"} :
          Step("sf_upload", "upload", o, "rt_connect")
    /\ UNCHANGED <<args, conf_exists, conf_written, caller, slept, status,
                   stderr, exit_code, gen, backup>>

\* ------------------------------------ ssh_utils: restart_telegraf_over_ssh
RestartConnect ==
    /\ \E o \in ConnectOutcomes : Step("rt_connect", "rt_connect", o, "rt_restart")
    /\ UNCHANGED <<args, conf_exists, conf_written, caller, slept, status,
                   stderr, exit_code, gen, backup>>

\* RestartExec with the errors of the restart command dropped instead of
\* propagated with `?`
RestartExecUnchecked ==
    /\ pc = "rt_restart"
    /\ \E o \in {"chan_err", "exec_err", "eof_err", "close_err", "ok"} :
          log' = Append(log, [op |-> "restart", res |-> o])
    /\ pc' = "rt_sleep"
    /\ UNCHANGED <<args, conf_exists, conf_written, caller, slept, status, result,
                   stderr, exit_code, gen, backup>>

\* channel_session, exec("sudo systemctl restart telegraf"), send_eof,
\* wait_eof, wait_close; the command's exit status is not read
RestartExec ==
    /\ \E o \in {"chan_err", "exec_err", "eof_err", "close_err", "ok"} :
          Step("rt_restart", "restart", o, "rt_sleep")
    /\ UNCHANGED <<args, conf_exists, conf_written, caller, slept, status,
                   stderr, exit_code, gen, backup>>

\* Settle without the sleep: the status check follows the restart at once
SettleSkipped ==
    /\ pc = "rt_sleep"
    /\ pc' = "rt_status"
    /\ UNCHANGED <<args, conf_exists, conf_written, caller, remote,
                   stderr, exit_code, gen, backup>>

\* thread::sleep(Duration::from_secs(5))
Settle ==
    /\ pc = "rt_sleep"
    /\ slept' = slept + SettleSecs
    /\ log' = Append(log, [op |-> "sleep", res |-> "ok"])
    /\ pc' = "rt_status"
    /\ UNCHANGED <<args, conf_exists, conf_written, caller, status, result,
                   stderr, exit_code, gen, backup>>

\* status == "active" after status.trim()
IsActive(raw) == Trim(raw) = Chars_active

\* the status check: channel_session, exec, read_to_string, wait_close, then
\* the comparison of the trimmed output with "active"
StatusCheck ==
    /\ pc = "rt_status"
    /\ \E o \in ExecOutcomes, raw \in StatusOutputs :
          /\ log' = Append(log, [op |-> "status", res |-> o])
          /\ IF o # "ok"
             THEN pc' = "returned" /\ result' = "Err" /\ UNCHANGED status
             ELSE /\ status' = raw
                  /\ IF IsActive(raw)
                     THEN ReturnOk
                     ELSE pc' = "rt_diag_status" /\ UNCHANGED result
    /\ UNCHANGED <<args, conf_exists, conf_written, caller, slept,
                   stderr, exit_code, gen, backup>>

\* exec("sudo systemctl status telegraf"), read, wait_close, each with `?`
DiagStatus ==
    /\ \E o \in ExecOutcomes : Step("rt_diag_status", "diag_status", o, "rt_diag_log")
    /\ UNCHANGED <<args, conf_exists, conf_written, caller, slept, status,
                   stderr, exit_code, gen, backup>>

\* exec("tail -n 20 /var/log/telegraf/telegraf.log"), read, wait_close
DiagLog ==
    /\ \E o \in ExecOutcomes : Step("rt_diag_log", "diag_log", o, "rt_diag_err")
    /\ UNCHANGED <<args, conf_exists, conf_written, caller, slept, status,
                   stderr, exit_code, gen, backup>>

\* exec("tail -n 10 ... | grep 'E!'"), read, wait_close; then Ok(())
DiagErrors ==
    /\ pc = "rt_diag_err"
    /\ \E o \in ExecOutcomes :
          /\ log' = Append(log, [op |-> "diag_err", res |-> o])
          /\ pc' = "returned"
          /\ result' = IF o = "ok" THEN "Ok" ELSE "Err"
    /\ UNCHANGED <<args, conf_exists, conf_written, caller, slept, status,
                   stderr, exit_code, gen, backup>>

\* ------------------------------------------------ ssh_utils: backup_influxdb
\* execute_command_over_ssh: the connection for the backup command
BackupConnect ==
    /\ \E o \in ConnectOutcomes : Step("bi_connect", "bi_connect", o, "bi_exec")
    /\ UNCHANGED <<args, conf_exists, conf_written, caller, slept, status,
                   stderr, exit_code, gen, backup>>

\* execute_command_over_ssh: channel_session, exec("influx backup ..."),
\* read_to_string, send_eof, wait_eof, wait_close
BackupExec ==
    /\ \E o \in {"chan_err", "exec_err", "read_err", "eof_err", "close_err", "ok"} :
          Step("bi_exec", "backup_cmd", o, "bi_mkdir")
    /\ UNCHANGED <<args, conf_exists, conf_written, caller, slept, status,
                   stderr, exit_code, gen, backup>>

\* std::fs::create_dir_all(&local_backup_path)?
BackupMkdir ==
    /\ \E o \in {"mkdir_err", "ok"} : Step("bi_mkdir", "mkdir", o, "cp_connect")
    /\ UNCHANGED <<args, conf_exists, conf_written, caller, slept, status,
                   stderr, exit_code, gen, backup>>

\* copy_directory_over_ssh: its own connection
CopyConnect ==
    /\ \E o \in ConnectOutcomes : Step("cp_connect", "cp_connect", o, "cp_list")
    /\ UNCHANGED <<args, conf_exists, conf_written, caller, slept, status,
                   stderr, exit_code, gen, backup>>

\* exec("ls <remote_directory>"), read_to_string, wait_close, lines();
\* with no entries the loop body never runs and the function returns Ok
CopyList ==
    /\ pc = "cp_list"
    /\ \E o \in ExecOutcomes, n \in 0..MaxEntries :
          /\ log' = Append(log, [op |-> "ls", res |-> o])
          /\ IF o # "ok"
             THEN pc' = "returned" /\ result' = "Err" /\ UNCHANGED file_list
             ELSE /\ file_list' = [i \in 1..n |-> i]
                  /\ IF n = 0 THEN ReturnOk
                     ELSE pc' = "cp_file" /\ UNCHANGED result
    /\ UNCHANGED <<args, conf_exists, conf_written, caller, slept, status,
                   stderr, exit_code, gen, downloaded, grafana_file>>

\* number of loop iterations of copy_directory_over_ssh already begun
CopyAttempts == Cardinality({i \in 1..Len(log) : log[i].op = "scp_recv"})

\* CopyFile logging a failed entry and going on to the next one
CopyFileContinues ==
    /\ pc = "cp_file"
    /\ LET k == CopyAttempts + 1
       IN \E o \in {"recv_err", "create_err", "copy_err", "ok"} :
          /\ log' = Append(log, [op |-> "scp_recv", res |-> o])
          /\ downloaded' =
                IF o \in {"copy_err", "ok"}
                THEN Append(downloaded, [file |-> file_list[k], complete |-> o = "ok"])
                ELSE downloaded
          /\ IF k = Len(file_list) THEN ReturnOk
             ELSE pc' = "cp_file" /\ UNCHANGED result
    /\ UNCHANGED <<args, conf_exists, conf_written, caller, slept, status,
                   stderr, exit_code, gen, file_list, grafana_file>>

\* one iteration of `for file_name in file_list`: scp_recv, File::create,
\* io::copy, each with `?`; after the last entry the function returns Ok
CopyFile ==
    /\ pc = "cp_file"
    /\ LET k == CopyAttempts + 1
       IN \E o \in {"recv_err", "create_err", "copy_err", "ok"} :
          /\ log' = Append(log, [op |-> "scp_recv", res |-> o])
          /\ downloaded' =
                IF o \in {"copy_err", "ok"}
                THEN Append(downloaded, [file |-> file_list[k], complete |-> o = "ok"])
                ELSE downloaded
          /\ IF o # "ok" THEN pc' = "returned" /\ result' = "Err"
             ELSE IF k = Len(file_list) THEN ReturnOk
             ELSE pc' = "cp_file" /\ UNCHANGED result
    /\ UNCHANGED <<args, conf_exists, conf_written, caller, slept, status,
                   stderr, exit_code, gen, file_list, grafana_file>>

\* ------------------------------------------ ssh_utils: backup_grafana_config
GrafanaConnect ==
    /\ \E o \in ConnectOutcomes : Step("bg_connect", "bg_connect", o, "bg_download")
    /\ UNCHANGED <<args, conf_exists, conf_written, caller, slept, status,
                   stderr, exit_code, gen, backup>>

\* session.sftp, sftp.open, read_to_end, File::create, write_all; then Ok(())
GrafanaDownload ==
    /\ pc = "bg_download"
    /\ \E o \in {"sftp_err", "open_err", "read_err", "create_err", "write_err", "ok"} :
          /\ log' = Append(log, [op |-> "sftp_get", res |-> o])
          /\ grafana_file' = CASE o = "ok" -> "full"
                               [] o = "write_err" -> "partial"
                               [] OTHER -> grafana_file
          /\ pc' = "returned"
          /\ result' = IF o = "ok" THEN "Ok" ELSE "Err"
    /\ UNCHANGED <<args, conf_exists, conf_written, caller, slept, status,
                   stderr, exit_code, gen, file_list, downloaded>>

\* ------------------------------------------------------------ main: --send
\* `if matches.get_flag("send")`: a missing telegraf.conf ends the run with
\* status 1, otherwise send_and_restart_telegraf is called
MainSend ==
    /\ pc = "flags"
    /\ send
    /\ IF ~conf_exists
       THEN /\ stderr' = Append(stderr, "no_telegraf_conf")
            /\ wrap_up(1)
            /\ UNCHANGED caller
       ELSE /\ caller' = "send_flag"
            /\ pc' = "sf_connect"
            /\ UNCHANGED <<stderr, exit_code>>
    /\ UNCHANGED <<args, conf_exists, conf_written, remote, gen, backup>>

\* back in main after the call of the --send branch: Err prints and
\* wrap_up(1), otherwise wrap_up(0)
MainSendReturn ==
    /\ pc = "returned"
    /\ caller = "send_flag"
    /\ IF result = "Err"
       THEN /\ stderr' = Append(stderr, "send_failed")
            /\ wrap_up(1)
       ELSE /\ wrap_up(0)
            /\ UNCHANGED stderr
    /\ UNCHANGED <<args, conf_exists, conf_written, caller, remote, gen, backup>>

\* ---------------------------------------------------- main: --backup-influx
\* the --backup-influx branch tested before the --send branch
MainBackupInfluxFirst ==
    /\ pc = "flags"
    /\ backup_influx
    /\ caller' = "backup_influx"
    /\ pc' = "bi_connect"
    /\ UNCHANGED <<args, conf_exists, conf_written, remote, stderr, exit_code,
                   gen, backup>>

MainBackupInflux ==
    /\ pc = "flags"
    /\ ~send
    /\ backup_influx
    /\ caller' = "backup_influx"
    /\ pc' = "bi_connect"
    /\ UNCHANGED <<args, conf_exists, conf_written, remote, stderr, exit_code,
                   gen, backup>>

\* `if let Err(e) = backup_influxdb(..) { eprintln!(..) }  wrap_up(0)`
MainBackupInfluxReturn ==
    /\ pc = "returned"
    /\ caller = "backup_influx"
    /\ stderr' = IF result = "Err" THEN Append(stderr, "influx_backup_failed")
                 ELSE stderr
    /\ wrap_up(0)
    /\ UNCHANGED <<args, conf_exists, conf_written, caller, remote, gen, backup>>

\* --------------------------------------------------- main: --backup-grafana
MainBackupGrafana ==
    /\ pc = "flags"
    /\ ~send
    /\ ~backup_influx
    /\ backup_grafana
    /\ caller' = "backup_grafana"
    /\ pc' = "bg_connect"
    /\ UNCHANGED <<args, conf_exists, conf_written, remote, stderr, exit_code,
                   gen, backup>>

\* `match backup_grafana_config(..) { Ok => println, Err => eprintln }  wrap_up(0)`
MainBackupGrafanaReturn ==
    /\ pc = "returned"
    /\ caller = "backup_grafana"
    /\ stderr' = IF result = "Err" THEN Append(stderr, "grafana_backup_failed")
                 ELSE stderr
    /\ wrap_up(0)
    /\ UNCHANGED <<args, conf_exists, conf_written, caller, remote, gen, backup>>

\* ------------------------------------------------------- main: generation
\* fs::read_dir(folder).unwrap() and the filter for *.xml files; with no
\* file the run ends with wrap_up(1)
MainScan ==
    /\ pc = "flags"
    /\ ~send
    /\ ~backup_influx
    /\ ~backup_grafana
    /\ scanned' = TRUE
    /\ \E o \in {"panic", "ok"}, n \in 0..MaxFiles :
          IF o = "panic" THEN Panic /\ UNCHANGED <<xml_files, xml_names, xml_docs>>
          ELSE /\ xml_files' = n
               /\ xml_names' \in {names \in [1..n -> XmlPathSamples] :
                                    \A i, j \in 1..n : names[i] = names[j] => i = j}
               /\ xml_docs' \in [1..n -> DocSamples]
               /\ IF n = 0 THEN wrap_up(1) ELSE pc' = "confirm" /\ UNCHANGED exit_code
               /\ UNCHANGED stderr
    /\ UNCHANGED <<args, conf_exists, conf_written, caller, remote,
                   listener_indices, config_strings, listener_line, conf_content,
                   backup>>

\* "Do you want to use these files? (y/N)":
\* confirm.trim().to_lowercase() != "y" aborts with wrap_up(1)
MainConfirm ==
    /\ pc = "confirm"
    /\ \/ Panic
       \/ \E confirm \in Answers :
             /\ IF ToLower(Trim(confirm)) # <<"y">>
                THEN wrap_up(1)
                ELSE pc' = "listeners" /\ UNCHANGED exit_code
             /\ UNCHANGED stderr
    /\ UNCHANGED <<args, conf_exists, conf_written, caller, remote, gen, backup>>

\* split(',') -> trim().parse::<usize>().ok() -> 0 < num <= len -> num - 1
RECURSIVE ListenerIndices(_, _)
ListenerIndices(tokens, nfiles) ==
    IF Len(tokens) = 0 THEN <<>>
    ELSE LET parsed == ParseUsize(Trim(Head(tokens)))
             rest == ListenerIndices(Tail(tokens), nfiles)
         IN  IF parsed = <<>> THEN rest
             ELSE LET num == UsizeUpTo(parsed[1], nfiles)
                  IN  IF num > 0 /\ num <= nfiles
                      THEN <<num - 1>> \o rest
                      ELSE rest

MainListeners ==
    /\ pc = "listeners"
    /\ \/ Panic /\ UNCHANGED <<listener_line, listener_indices>>
       \/ \E listener_numbers \in ListenerLines :
             /\ listener_line' = listener_numbers
             /\ listener_indices' =
                    ListenerIndices(Split(Trim(listener_numbers), ","), xml_files)
             /\ pc' = "token"
             /\ UNCHANGED <<stderr, exit_code>>
    /\ UNCHANGED <<args, conf_exists, conf_written, caller, remote,
                   xml_files, config_strings, files, conf_content, backup>>

\* token.txt read (or the token typed in); a read error ends with wrap_up(1)
MainToken ==
    /\ pc = "token"
    /\ \E o \in {"file_ok", "file_err", "stdin_ok", "stdin_err"} :
          IF o \in {"file_err", "stdin_err"}
          THEN /\ stderr' = Append(stderr, "token_read_failed")
               /\ wrap_up(1)
          ELSE /\ pc' = "parse"
               /\ UNCHANGED <<stderr, exit_code>>
    /\ UNCHANGED <<args, conf_exists, conf_written, caller, remote, gen, backup>>

\* IsListener without the conversion of the typed numbers to 0-based indices
IsListenerOffByOne(i) ==
    \E j \in 1..Len(listener_indices) :
        /\ listener_indices[j] + 2 <= Len(xml_names)
        /\ xml_names[listener_indices[j] + 2] = xml_names[i]

\* listener_files.contains(file) for the file with 1-based index i, where
\* listener_files[j] = xml_files[listener_indices[j]]
IsListener(i) ==
    \E j \in 1..Len(listener_indices) :
        xml_names[listener_indices[j] + 1] = xml_names[i]

\* one iteration of `for file in &xml_files`: parse_xml (which panics on an
\* unreadable or malformed file) and config_strings.push
MainParse ==
    /\ pc = "parse"
    /\ LET i == Len(config_strings) + 1
       IN \E o \in {"panic", "ok"}, ns \in NamespaceLines, iv \in IntervalLines :
          IF o = "panic" THEN Panic /\ UNCHANGED config_strings
          ELSE /\ config_strings' =
                     Append(config_strings,
                            ParseXml(xml_docs[i], xml_names[i], ns, iv, IsListener(i)))
               /\ pc' = IF i = xml_files THEN "write" ELSE "parse"
               /\ UNCHANGED <<stderr, exit_code>>
    /\ UNCHANGED <<args, conf_exists, conf_written, caller, remote,
                   xml_files, listener_indices, files, listener_line, conf_content,
                   backup>>

\* generate_config_content (the preamble, then the blocks in order),
\* File::create(<folder>/telegraf.conf).unwrap(), write_all(..).unwrap()
MainWrite ==
    /\ pc = "write"
    /\ \E o \in {"create_panic", "write_panic", "ok"} :
          /\ conf_written' = CASE o = "ok" -> "full"
                               [] o = "write_panic" -> "partial"
                               [] OTHER -> conf_written
          /\ conf_content' = IF o = "ok" THEN config_strings ELSE conf_content
          /\ conf_exists' = IF o = "create_panic" THEN conf_exists ELSE TRUE
          /\ IF o = "ok" THEN pc' = "ask_send" /\ UNCHANGED <<stderr, exit_code>>
             ELSE Panic
    /\ UNCHANGED <<args, caller, remote, xml_files, listener_indices,
                   config_strings, files, listener_line, backup>>

\* "Do you want to send the config file to the IOT box? (y/N)"
MainAskSend ==
    /\ pc = "ask_send"
    /\ \/ Panic /\ UNCHANGED caller
       \/ \E user_input \in Answers :
             IF EqIgnoreAsciiCase(Trim(user_input), <<"y">>)
             THEN IF ~conf_exists
                  THEN /\ stderr' = Append(stderr, "no_telegraf_conf")
                       /\ wrap_up(1)
                       /\ UNCHANGED caller
                  ELSE /\ caller' = "prompt"
                       /\ pc' = "sf_connect"
                       /\ UNCHANGED <<stderr, exit_code>>
             ELSE /\ wrap_up(0)
                  /\ UNCHANGED <<stderr, caller>>
    /\ UNCHANGED <<args, conf_exists, conf_written, remote, gen, backup>>

\* back in main after the call of the prompt branch:
\* `if let Err(e) = .. { eprintln!(..) }  wrap_up(1)`
MainPromptReturn ==
    /\ pc = "returned"
    /\ caller = "prompt"
    /\ stderr' = IF result = "Err" THEN Append(stderr, "send_failed") ELSE stderr
    /\ wrap_up(1)
    /\ UNCHANGED <<args, conf_exists, conf_written, caller, remote, gen, backup>>

\* ------------------------------------------------------------ specification
Next ==
    \/ ValidateIp
    \/ ValidateHost
    \/ MainSend
    \/ MainSendReturn
    \/ MainBackupInflux
    \/ MainBackupInfluxReturn
    \/ MainBackupGrafana
    \/ MainBackupGrafanaReturn
    \/ MainScan
    \/ MainConfirm
    \/ MainListeners
    \/ MainToken
    \/ MainParse
    \/ MainWrite
    \/ MainAskSend
    \/ MainPromptReturn
    \/ SendFileConnect
    \/ SendFileUpload
    \/ RestartConnect
    \/ RestartExec
    \/ Settle
    \/ StatusCheck
    \/ DiagStatus
    \/ DiagLog
    \/ DiagErrors
    \/ BackupConnect
    \/ BackupExec
    \/ BackupMkdir
    \/ CopyConnect
    \/ CopyList
    \/ CopyFile
    \/ GrafanaConnect
    \/ GrafanaDownload

Spec == Init /\ [][Next]_vars

\* the --ip check alone, on every string joined from up to MaxIpSegs segments
InitIp ==
    /\ pc = "validate_ip"
    /\ ip \in {Join(segs, ".") : segs \in SeqsUpTo(IpSegs, MaxIpSegs)}
    /\ iot_host = Chars_host \o <<":", "2", "2">>
    /\ send = FALSE
    /\ backup_influx = FALSE
    /\ backup_grafana = FALSE
    /\ conf_exists = FALSE
    /\ InitRest

NextIp == ValidateIp

SpecIp == InitIp /\ [][NextIp]_vars

\* the --iot-host check alone (the --ip check passed), on every string joined
\* from up to MaxHostSegs segments
InitHost ==
    /\ pc = "validate_host"
    /\ ip = Chars_host
    /\ iot_host \in {Join(segs, ":") : segs \in SeqsUpTo(HostSegs, MaxHostSegs)}
    /\ send = FALSE
    /\ backup_influx = FALSE
    /\ backup_grafana = FALSE
    /\ conf_exists = FALSE
    /\ InitRest

NextHost == ValidateHost

SpecHost == InitHost /\ [][NextHost]_vars

\* parse_xml alone: main at its loop over one scanned file with a path drawn
\* from `paths`, holding any document of up to n elements of the given kinds,
\* after a line drawn from `lines` was typed at the listener prompt
InitXml(kinds, n, paths, lines) ==
    /\ pc = "parse"
    /\ ip = Chars_host
    /\ iot_host = Chars_host \o <<":", "2", "2">>
    /\ send = FALSE
    /\ backup_influx = FALSE
    /\ backup_grafana = FALSE
    /\ conf_exists = FALSE
    /\ conf_written = "no"
    /\ caller = "none"
    /\ log = <<>>
    /\ slept = 0
    /\ status = <<>>
    /\ result = "none"
    /\ stderr = <<>>
    /\ exit_code = -1
    /\ xml_files = 1
    /\ \E line \in lines :
          /\ listener_line = line
          /\ listener_indices = ListenerIndices(Split(Trim(line), ","), 1)
    /\ config_strings = <<>>
    /\ scanned = TRUE
    /\ xml_names \in [1..1 -> paths]
    /\ \E k \in 0..n :
          \E ks \in [1..k -> kinds], sh \in Shapes(k) : xml_docs = <<DocOf(ks, sh)>>
    /\ conf_content = <<>>
    /\ file_list = <<>>
    /\ downloaded = <<>>
    /\ grafana_file = "no"

NextXml == MainParse

\* the node list of parse_xml on every document of up to MaxDocLen variable,
\* browse-name and mapping elements
InitNodes ==
    InitXml(NodeKinds, MaxDocLen, { <<"e", ".", "x", "m", "l">> },
            { <<"\n">>, <<"1", "\n">> })

SpecNodes == InitNodes /\ [][NextXml]_vars

\* the group name of parse_xml on every document of up to MaxGroupDocLen
\* object and display-name elements
InitGroup ==
    InitXml(GroupKinds, MaxGroupDocLen,
            { <<"d", "/", "b", ".", "c", ".", "x", "m", "l">>,
              <<"e", ".", "x", "m", "l">> },
            { <<"\n">> })

SpecGroup == InitGroup /\ [][NextXml]_vars

\* ================================================================== claims
\* ----------------------------------------------------- helpers of the claims
\* how often a step was taken
Count(name) == Cardinality({i \in 1..Len(log) : log[i].op = name})

\* the step was taken and ended with the given outcome
Ended(name, outcome) == \E i \in 1..Len(log) : log[i] = [op |-> name, res |-> outcome]

\* the step was taken and failed
Failed(name) == \E i \in 1..Len(log) : log[i].op = name /\ log[i].res # "ok"

Diagnostics == {"diag_status", "diag_log", "diag_err"}

\* send_and_restart_telegraf has returned to main (or main has exited after it)
ProvisioningOver == caller \in {"send_flag", "prompt"} /\ pc \in {"returned", "exited"}

\* the steps of a provisioning run, in the order of the state machine
\* Uploading -> Restarting -> Verifying -> Diagnosing
ProvisioningOrder ==
    <<"sf_connect", "upload", "rt_connect", "restart", "sleep", "status",
      "diag_status", "diag_log", "diag_err">>

\* C1: once the status check has returned, output "active" (trimmed) means no
\* diagnostic command is ever issued, and any other output means that each of
\* the three diagnostic commands is issued exactly once by the end of the call.
C1_StatusDecidesDiagnostics ==
    Ended("status", "ok") =>
        /\ IsActive(status) => \A d \in Diagnostics : Count(d) = 0
        /\ (~IsActive(status) /\ ProvisioningOver) =>
               \A d \in Diagnostics : Count(d) = 1

\* C2: the diagnostic cascade does not short-circuit: once its first step was
\* taken, whatever the outcome of a step, the call ends only after all three
\* steps were taken, and it does not return an error.
C2_NoShortCircuit ==
    (ProvisioningOver /\ Count("diag_status") > 0) =>
        /\ Count("diag_log") = 1
        /\ Count("diag_err") = 1
        /\ result = "Ok"

\* C3: a failed upload (connect, authenticate or transfer) returns Err with
\* no restart connection, restart command, status check or diagnostic issued;
\* a failed restart returns Err with no status check or diagnostic issued.
C3_UploadAndRestartFatal ==
    /\ (Failed("sf_connect") \/ Failed("upload")) =>
          /\ result = "Err"
          /\ \A n \in {"rt_connect", "restart", "sleep", "status"} \cup Diagnostics :
                Count(n) = 0
    /\ (Failed("rt_connect") \/ Failed("restart")) =>
          /\ result = "Err"
          /\ \A n \in {"sleep", "status"} \cup Diagnostics : Count(n) = 0

\* the restart command was dispatched, failed late, and main has handled the error
C3_Witness ==
    /\ Ended("restart", "close_err")
    /\ pc = "exited"

\* C4: with upload and restart succeeded, a status output other than
\* "active" makes send_and_restart_telegraf run the three diagnostics and
\* return Ok, not Err.
C4_NotActiveIsNotAnError ==
    (ProvisioningOver /\ Ended("status", "ok") /\ ~IsActive(status)) =>
        /\ result = "Ok"
        /\ \A d \in Diagnostics : Count(d) > 0

\* C5: the steps of a provisioning run are a prefix of ProvisioningOrder, each
\* step begun only after the one before it succeeded; so the restart follows a
\* completed upload, the status check is issued once, directly after the one
\* settle delay of SettleSecs seconds, and diagnostics follow the status check.
C5_ProvisioningOrder ==
    caller \in {"send_flag", "prompt"} =>
        /\ Len(log) <= Len(ProvisioningOrder)
        /\ \A i \in 1..Len(log) : log[i].op = ProvisioningOrder[i]
        /\ \A i \in 1..(Len(log) - 1) : log[i].res = "ok"
        /\ slept = SettleSecs * Count("sleep")
        /\ Ended("restart", "ok") => (pc = "rt_sleep" \/ Count("sleep") = 1)

\* a run that went Uploading, Restarting, Verifying, Diagnosing, Done
C5_Witness ==
    /\ pc = "exited"
    /\ Len(log) = Len(ProvisioningOrder)
    /\ Ended("diag_err", "ok")
    /\ slept = SettleSecs

\* ------------------------------------------------ claims on the validations
\* the text has exactly four period-separated segments, each an 8-bit integer
FourU8Segments(s) ==
    LET parts == Split(s, ".")
    IN  /\ Len(parts) = 4
        /\ \A i \in 1..Len(parts) : ParseU8(parts[i]) >= 0

\* C6: the --ip check passes exactly the texts of four period-separated
\* segments that each parse as an 8-bit unsigned integer.
C6_IpCheckIsFourU8Segments ==
    pc # "validate_ip" => ((exit_code = -1) <=> FourU8Segments(ip))

\* value of a text of decimal digits
RECURSIVE DecimalValue(_)
DecimalValue(d) ==
    IF Len(d) = 0 THEN 0
    ELSE 10 * DecimalValue(SubSeq(d, 1, Len(d) - 1)) + DigitVal(d[Len(d)])

\* the text is a decimal numeral (one leading "+" allowed) of a value in 1..65535
PositiveU16Text(t) ==
    LET d == IF Len(t) > 0 /\ t[1] = "+" THEN Tail(t) ELSE t
    IN  /\ Len(d) > 0
        /\ \A i \in 1..Len(d) : d[i] \in Digits
        /\ DecimalValue(d) \in 1..U16Max

\* the text holds exactly one colon, followed by a positive 16-bit port
OneColonPositivePort(s) ==
    LET colons == {i \in 1..Len(s) : s[i] = ":"}
    IN  /\ Cardinality(colons) = 1
        /\ \A k \in colons : PositiveU16Text(SubSeq(s, k + 1, Len(s)))

\* C7: the --iot-host check passes exactly the texts with one colon whose
\* part after the colon parses as a 16-bit unsigned integer greater than zero.
C7_HostCheckIsOneColonPositivePort ==
    pc # "validate_host" => ((exit_code = -1) <=> OneColonPositivePort(iot_host))

\* "10.0.0.5:22" has passed the check
C7_Witness ==
    /\ pc = "flags"
    /\ iot_host = Chars_host \o <<":", "2", "2">>

\* --------------------------------------------------- claims on the exit code
\* C8: every success path exits with status 0: a provisioning or backup call
\* that returned Ok (from --send or from the answer "y"), and a run that wrote
\* telegraf.conf and was told not to send it.
C8_SuccessExitsZero ==
    (pc = "exited" /\ (result = "Ok" \/ (conf_written = "full" /\ caller = "none")))
        => exit_code = 0

\* C9: every failure (a failed validation, a provisioning or backup call that
\* returned Err) ends the process with a non-zero status after a message on
\* the error stream.
C9_FailureExitsNonZero ==
    (pc = "exited" /\ (~IpValid(ip) \/ ~IotHostValid(iot_host) \/ result = "Err"))
        => (exit_code # 0 /\ Len(stderr) > 0)

\* C10: when the --ip or the --iot-host check fails, the run ends (status 1)
\* with no connection opened, no remote command or transfer issued and
\* telegraf.conf not written, whatever flags are set.
C10_ValidationFailureBeforeSideEffects ==
    (~IpValid(ip) \/ ~IotHostValid(iot_host)) =>
        /\ pc \in {"validate_ip", "validate_host", "exited"}
        /\ pc = "exited" => exit_code = 1
        /\ log = <<>>
        /\ conf_written = "no"
        /\ downloaded = <<>>
        /\ grafana_file = "no"
        /\ caller = "none"

\* a run with --send and a telegraf.conf in place, ended by a bad --iot-host
C10_Witness ==
    /\ pc = "exited"
    /\ IpValid(ip)
    /\ ~IotHostValid(iot_host)
    /\ send
    /\ conf_exists

\* ------------------------------------------------ claims on the generation
\* the text is a decimal numeral (one leading "+" allowed) of value n
NumeralOf(t, n) ==
    LET d == IF Len(t) > 0 /\ t[1] = "+" THEN Tail(t) ELSE t
        first == {i \in 1..Len(d) : d[i] # "0"}
        z == IF first = {} THEN <<>>
             ELSE SubSeq(d, CHOOSE i \in first : \A j \in first : i <= j, Len(d))
    IN  /\ Len(d) > 0
        /\ \A i \in 1..Len(d) : d[i] \in Digits
        /\ Len(z) <= 9
        /\ DecimalValue(z) = n

\* the 1-based index i was typed at the listener prompt
Selected(i) ==
    LET tokens == Split(Trim(listener_line), ",")
    IN  \E j \in 1..Len(tokens) : NumeralOf(Trim(tokens[j]), i)

\* C11: the generated config holds one block per XML file found, the block of
\* the i-th file at place i; that block is an [[inputs.opcua_listener]] block
\* if and only if the 1-based index i was selected, otherwise an
\* [[inputs.opcua]] block; so with no selection there is no listener block.
C11_OneBlockPerFile ==
    conf_written = "full" =>
        /\ Len(conf_content) = xml_files
        /\ Len(xml_names) = xml_files
        /\ \A i \in 1..xml_files :
              /\ conf_content[i].kind =
                     IF Selected(i) THEN "opcua_listener" ELSE "opcua"
              /\ conf_content[i].group_name = GroupName(xml_docs[i], xml_names[i])
              /\ conf_content[i].nodes = ParseNodes(xml_docs[i], 1)
        /\ (\A i \in 1..xml_files : ~Selected(i)) =>
              \A i \in 1..xml_files : conf_content[i].kind = "opcua"

\* two files with different documents, the second one alone selected
C11_Witness ==
    /\ conf_written = "full"
    /\ xml_files = 2
    /\ Len(conf_content) = 2
    /\ conf_content[1].kind = "opcua"
    /\ conf_content[2].kind = "opcua_listener"
    /\ conf_content[1].group_name # conf_content[2].group_name

\* --------------------------------------------------- claims on parse_xml
\* the n-th smallest element of a set of numbers
Nth(S, n) == CHOOSE j \in S : Cardinality({k \in S : k < j}) = n - 1

\* the document parse_xml was called on, and the block it returned
ParsedDoc == xml_docs[1]
Parsed == Len(config_strings) = 1

\* the UAVariable elements whose NodeId starts with "ns=2;i="
Qualifying(doc) ==
    {i \in 1..Len(doc) : /\ doc[i].tag = "UAVariable"
                         /\ doc[i].id # <<>>
                         /\ StartsWith(doc[i].id[1], Ns2Prefix)}

\* the text k of a NodeId "ns=2;i=<k>"
AfterPrefix(node_id) == SubSeq(node_id, Len(Ns2Prefix) + 1, Len(node_id))

\* C12: the node list is the document-order sequence of the
\* UAVariable elements with a NodeId ns=2;i=<k>, one entry each, with
\* identifier equal to k.
C12_NodeList ==
    Parsed =>
        LET nodes == config_strings[1].nodes
            q == Qualifying(ParsedDoc)
        IN  /\ Len(nodes) = Cardinality(q)
            /\ \A n \in 1..Len(nodes) :
                  nodes[n].identifier = AfterPrefix(ParsedDoc[Nth(q, n)].id[1])

\* a text without its double-quote characters
RECURSIVE WithoutQuotes(_)
WithoutQuotes(t) ==
    IF Len(t) = 0 THEN <<>>
    ELSE IF Head(t) = "\"" THEN WithoutQuotes(Tail(t))
    ELSE <<Head(t)>> \o WithoutQuotes(Tail(t))

\* C13: the name of every entry is the text of the variable's VariableMapping
\* with the double quotes removed when there is such a text, whether or not
\* there is a BrowseName; the BrowseName text (or the empty name) is used only
\* when there is no VariableMapping text.
C13_MappingOverridesBrowseName ==
    Parsed =>
        LET nodes == config_strings[1].nodes
            q == Qualifying(ParsedDoc)
        IN  \A n \in 1..Len(nodes) :
               LET v == Nth(q, n)
                   browse == FindText(ParsedDoc, v, "BrowseName")
                   mapping == FindText(ParsedDoc, v, "VariableMapping")
               IN  /\ mapping # <<>> => nodes[n].name = WithoutQuotes(mapping[1])
                   /\ (mapping = <<>> /\ browse # <<>>) => nodes[n].name = browse[1]
                   /\ (mapping = <<>> /\ browse = <<>>) => nodes[n].name = <<>>

\* a variable with the BrowseName b and the VariableMapping "m" is named m
C13_Witness ==
    /\ Parsed
    /\ Len(ParsedDoc) = 3
    /\ ParsedDoc[1].tag = "UAVariable"
    /\ FindText(ParsedDoc, 1, "BrowseName") = <<<<"b">>>>
    /\ FindText(ParsedDoc, 1, "VariableMapping") = <<<<"\"", "m", "\"">>>>
    /\ Len(config_strings[1].nodes) = 1
    /\ config_strings[1].nodes[1].name = <<"m">>

\* the UAObject elements with the sentinel NodeId ns=2;i=1
Sentinels(doc) ==
    {i \in 1..Len(doc) : doc[i].tag = "UAObject" /\ doc[i].id = <<SentinelId>>}

\* the text is the base name of the path with the extension stripped
IsStemOf(stem, path) ==
    \E k \in 1..Len(path) :
        /\ k = 1 \/ path[k - 1] = "/"
        /\ SubSeq(path, k, Len(path)) = stem \o <<".", "x", "m", "l">>
        /\ \A j \in 1..Len(stem) : stem[j] # "/"

\* the largest element of a non-empty set of numbers
Last(S) == CHOOSE j \in S : \A k \in S : k <= j

\* C14 as stated: without a sentinel UAObject the group name is the base
\* name of the file with the extension stripped; with one or more, it is the
\* DisplayName of the last sentinel UAObject.
C14_GroupNameAsStated ==
    Parsed =>
        LET group == config_strings[1].group_name
            sent == Sentinels(ParsedDoc)
        IN  IF sent = {} THEN IsStemOf(group, xml_names[1])
            ELSE FindText(ParsedDoc, Last(sent), "DisplayName") = <<group>>

\* C14: a match is a sentinel UAObject that holds a DisplayName with text.
\* Without a match (no sentinel UAObject at all, or none with a DisplayName
\* text) the group name is the base name of the file with the extension
\* stripped; with one or more matches it is the DisplayName of the last match.
C14_GroupName ==
    Parsed =>
        LET group == config_strings[1].group_name
            matches == {i \in Sentinels(ParsedDoc) :
                           FindText(ParsedDoc, i, "DisplayName") # <<>>}
        IN  IF matches = {} THEN IsStemOf(group, xml_names[1])
            ELSE FindText(ParsedDoc, Last(matches), "DisplayName") = <<group>>

\* two sentinel objects named G and then H: the group is H
C14_Witness ==
    /\ Parsed
    /\ Len(ParsedDoc) = 4
    /\ Sentinels(ParsedDoc) = {1, 3}
    /\ FindText(ParsedDoc, 1, "DisplayName") = <<<<"G">>>>
    /\ FindText(ParsedDoc, 3, "DisplayName") = <<<<"H">>>>
    /\ config_strings[1].group_name = <<"H">>

\* ------------------------------------------------- claims on the backups
InfluxOps == {"bi_connect", "backup_cmd", "mkdir", "cp_connect", "ls", "scp_recv"}
GrafanaOps == {"bg_connect", "sftp_get"}
SendOps ==
    {"sf_connect", "upload", "rt_connect", "restart", "sleep", "status",
     "diag_status", "diag_log", "diag_err"}

\* some step of the given set was taken
Ran(ops) == \E i \in 1..Len(log) : log[i].op \in ops

\* C15: in the database backup every failed step is the last step and makes
\* backup_influxdb return an error; entries are downloaded only after the
\* backup command and the listing succeeded, one at a time in listing order;
\* when the download of entry N fails, entries 1..N-1 are complete in the
\* local directory and no entry after N is attempted.
C15_BackupFatalNoCleanup ==
    /\ \A i \in 1..Len(log) :
          (log[i].op \in InfluxOps /\ log[i].res # "ok") =>
              /\ i = Len(log)
              /\ result = "Err"
    /\ \A i \in 1..Len(log) :
          log[i].op = "scp_recv" =>
              /\ \E j \in 1..(i - 1) : log[j] = [op |-> "backup_cmd", res |-> "ok"]
              /\ \E j \in 1..(i - 1) : log[j] = [op |-> "ls", res |-> "ok"]
    /\ CopyAttempts <= Len(file_list)
    /\ Len(downloaded) <= CopyAttempts
    /\ \A k \in 1..Len(downloaded) : downloaded[k].file = file_list[k]
    /\ \A k \in 1..(CopyAttempts - 1) :
          /\ k <= Len(downloaded)
          /\ downloaded[k].complete

\* three entries listed, the second download failed: the first entry is all
\* that was downloaded when the run is over
C15_Witness ==
    /\ pc = "exited"
    /\ Len(file_list) = 3
    /\ CopyAttempts = 2
    /\ log[Len(log)] = [op |-> "scp_recv", res |-> "recv_err"]
    /\ downloaded = <<[file |-> file_list[1], complete |-> TRUE]>>
    /\ result = "Err"

\* ------------------------------------------------ claims on the dispatch
\* C16: the flow is chosen by --send before --backup-influx before
\* --backup-grafana before generation. With --send no backup step, no scan
\* and no generation happens, and without a telegraf.conf in the folder no
\* remote step at all; with --backup-influx and no --send there is no Grafana
\* step, no upload and no scan; with --backup-grafana alone no database
\* backup step; the folder is scanned only when no flag is set; and no run
\* takes steps of two backups or of a backup and an upload.
C16_OneFlowByPrecedence ==
    /\ send =>
          /\ ~Ran(InfluxOps \cup GrafanaOps)
          /\ ~scanned
          /\ config_strings = <<>>
          /\ conf_written = "no"
          /\ ~conf_exists => log = <<>>
    /\ (~send /\ backup_influx) =>
          /\ ~Ran(GrafanaOps \cup SendOps)
          /\ ~scanned
          /\ conf_written = "no"
    /\ (~send /\ ~backup_influx /\ backup_grafana) =>
          /\ ~Ran(InfluxOps \cup SendOps)
          /\ ~scanned
          /\ conf_written = "no"
    /\ (scanned \/ conf_written # "no" \/ config_strings # <<>>) =>
          ~send /\ ~backup_influx /\ ~backup_grafana
    /\ ~(Ran(InfluxOps) /\ Ran(GrafanaOps))
    /\ ~(Ran(InfluxOps \cup GrafanaOps) /\ Ran(SendOps))

\* all three flags set: the run is over, and the upload is what it did
C16_Witness ==
    /\ pc = "exited"
    /\ send /\ backup_influx /\ backup_grafana
    /\ Ran({"upload"})
    /\ ~Ran(InfluxOps \cup GrafanaOps)
    /\ ~scanned

====
